---- MODULE Spec2Model ----
(***************************************************************************)
(* Verification model of the singing-flower simulation core:               *)
(*   StateMachine   (growth state machine),                                *)
(*   AudioAnalyzer  (asynchronous capture life cycle and polling),         *)
(*   ParticleSystem (two-phase particle simulation).                       *)
(* Each component has its own specification over the shared variable       *)
(* tuple; the variables of the other components stay at their initial      *)
(* values.                                                                 *)
(***************************************************************************)
EXTENDS Integers, Sequences, FiniteSets, TLC

(***************************************************************************)
(* StateMachine                                                            *)
(***************************************************************************)

\* THRESHOLDS
SEED_TO_SPROUT_VOLUME == 30
BLOOM_TO_SCATTER_VOLUME == 70
SPROUT_TO_STEM_LENGTH == 100
STEM_TO_BLOOM_LENGTH == 300

\* enum GrowthState
GrowthState == {"SEED", "SPROUT", "STEM", "BLOOM", "SCATTER"}

\* Bounds of the inputs handed to StateMachine.update
MaxVolume == 100
MaxProgress == 1000
MaxUpdates == 6

Volumes == {0, SEED_TO_SPROUT_VOLUME - 1, SEED_TO_SPROUT_VOLUME,
            SEED_TO_SPROUT_VOLUME + 1, BLOOM_TO_SCATTER_VOLUME - 1,
            BLOOM_TO_SCATTER_VOLUME, BLOOM_TO_SCATTER_VOLUME + 1, MaxVolume}

Progresses == {0, SPROUT_TO_STEM_LENGTH - 1, SPROUT_TO_STEM_LENGTH,
               SPROUT_TO_STEM_LENGTH + 1, STEM_TO_BLOOM_LENGTH - 1,
               STEM_TO_BLOOM_LENGTH, STEM_TO_BLOOM_LENGTH + 1, MaxProgress}

VARIABLES
    currentState,   \* StateMachine.currentState
    smOp,           \* the last StateMachine operation: "new", "update", "reset"
    smPrev,         \* currentState before the last operation
    smVolume,       \* volume argument of the last update
    smProgress,     \* growthProgress argument of the last update
    smUpdates       \* update calls since construction or reset (capped)

smVars == <<currentState, smOp, smPrev, smVolume, smProgress, smUpdates>>

\* An update that treats the SCATTER case like the start of a new cycle
UpdateStateScatterRestarts(s, volume, growthProgress) ==
    CASE s = "SEED" ->
            IF volume >= SEED_TO_SPROUT_VOLUME THEN "SPROUT" ELSE s
      [] s = "SPROUT" ->
            IF growthProgress >= SPROUT_TO_STEM_LENGTH THEN "STEM" ELSE s
      [] s = "STEM" ->
            IF growthProgress >= STEM_TO_BLOOM_LENGTH THEN "BLOOM" ELSE s
      [] s = "BLOOM" ->
            IF volume >= BLOOM_TO_SCATTER_VOLUME THEN "SCATTER" ELSE s
      [] s = "SCATTER" ->
            IF volume < SEED_TO_SPROUT_VOLUME THEN "SEED" ELSE s

\* An update with strict comparisons
UpdateStateStrict(s, volume, growthProgress) ==
    CASE s = "SEED" ->
            IF volume > SEED_TO_SPROUT_VOLUME THEN "SPROUT" ELSE s
      [] s = "SPROUT" ->
            IF growthProgress > SPROUT_TO_STEM_LENGTH THEN "STEM" ELSE s
      [] s = "STEM" ->
            IF growthProgress > STEM_TO_BLOOM_LENGTH THEN "BLOOM" ELSE s
      [] s = "BLOOM" ->
            IF volume > BLOOM_TO_SCATTER_VOLUME THEN "SCATTER" ELSE s
      [] s = "SCATTER" -> s

\* An update whose switch falls through from case to case
UpdateStateCascade(s, volume, growthProgress) ==
    LET s1 == IF s = "SEED" /\ volume >= SEED_TO_SPROUT_VOLUME
              THEN "SPROUT" ELSE s
        s2 == IF s1 = "SPROUT" /\ growthProgress >= SPROUT_TO_STEM_LENGTH
              THEN "STEM" ELSE s1
        s3 == IF s2 = "STEM" /\ growthProgress >= STEM_TO_BLOOM_LENGTH
              THEN "BLOOM" ELSE s2
    IN  IF s3 = "BLOOM" /\ volume >= BLOOM_TO_SCATTER_VOLUME
        THEN "SCATTER" ELSE s3

\* StateMachine.update: the state after update(volume, growthProgress) in s
UpdateState(s, volume, growthProgress) ==
    CASE s = "SEED" ->
            IF volume >= SEED_TO_SPROUT_VOLUME THEN "SPROUT" ELSE s
      [] s = "SPROUT" ->
            IF growthProgress >= SPROUT_TO_STEM_LENGTH THEN "STEM" ELSE s
      [] s = "STEM" ->
            IF growthProgress >= STEM_TO_BLOOM_LENGTH THEN "BLOOM" ELSE s
      [] s = "BLOOM" ->
            IF volume >= BLOOM_TO_SCATTER_VOLUME THEN "SCATTER" ELSE s
      [] s = "SCATTER" -> s

\* A reset that only acts at the end of a cycle
ResetStateOnlyFromScatter(s) == IF s = "SCATTER" THEN "SEED" ELSE s

\* StateMachine.reset: the state after reset() in s
ResetState(s) == "SEED"

\* StateMachine.constructor
SMInit ==
    /\ currentState = "SEED"
    /\ smOp = "new"
    /\ smPrev = "SEED"
    /\ smVolume = 0
    /\ smProgress = 0
    /\ smUpdates = 0

SMUpdate ==
    \E volume \in Volumes, growthProgress \in Progresses :
        /\ currentState' = UpdateState(currentState, volume, growthProgress)
        /\ smOp' = "update"
        /\ smPrev' = currentState
        /\ smVolume' = volume
        /\ smProgress' = growthProgress
        /\ smUpdates' = IF smUpdates < MaxUpdates THEN smUpdates + 1 ELSE smUpdates

SMReset ==
    /\ currentState' = ResetState(currentState)
    /\ smOp' = "reset"
    /\ smPrev' = currentState
    /\ smUpdates' = 0
    /\ UNCHANGED <<smVolume, smProgress>>

(***************************************************************************)
(* Arithmetic of the sources, on integers                                  *)
(***************************************************************************)

Abs(n) == IF n < 0 THEN -n ELSE n
Min(a, b) == IF a < b THEN a ELSE b
Max(a, b) == IF a > b THEN a ELSE b

\* Math.sqrt, rounded down: the largest r in 0..46340 with r * r <= n, found
\* by bisection (Root is a function, so that its arguments are values)
ISqrt(n) ==
    LET Root[m \in Nat, lo \in Nat, hi \in Nat] ==
            IF lo >= hi THEN lo
            ELSE LET mid == (lo + hi + 1) \div 2
                 IN  IF mid * mid <= m THEN Root[m, mid, hi]
                     ELSE Root[m, lo, mid - 1]
    IN  Root[n, 0, 46340]

(***************************************************************************)
(* AudioAnalyzer                                                           *)
(*                                                                         *)
(* initialize() is an async function: it runs to its first await, and each *)
(* later piece runs when the awaited promise settles.  Several calls may   *)
(* be suspended at once (the start-up call and the demo-toggle handler     *)
(* both call it), and dispose(), the polls and the track's 'ended' event   *)
(* run between the pieces.  Call i owns the AudioContext, the MediaStream  *)
(* and the two nodes it creates, so all of them are named by the call's    *)
(* index; 0 stands for null, and dataArray is 0 (null) or 1 (an array).    *)
(***************************************************************************)

\* Number of initialize() calls in one run, and of calls suspended at once
MaxCalls == 3
MaxPending == 1

Calls == 1..MaxCalls

\* The sample buffer (dataArray): bufferLength bytes, each the silence level
\* 128, a quiet sound (129, 136), or an extreme 0 or 255.  The buffer and the
\* sample rate are scaled down together, so that lags of the pitch search
\* fall inside the buffer.
bufferLength == 4
Bytes == {0, 128, 129, 136, 255}
Buffers == [1..bufferLength -> Bytes]
SampleRates == {2000, 3000}

RECURSIVE SumSquares(_, _)
\* getVolume: sum of normalized * normalized from sample i on, in 1/16384
SumSquares(buffer, i) ==
    IF i > Len(buffer) THEN 0
    ELSE (buffer[i] - 128) * (buffer[i] - 128) + SumSquares(buffer, i + 1)

\* getVolume: rms = Math.sqrt(sum / length), in 1/10000
Rms(buffer) == ISqrt((SumSquares(buffer, 1) \div Len(buffer)) * 6103)

\* 10 ^ (k / 10) for k = 0..9, in 1/1000
Pow10Tenth == <<1000, 1259, 1585, 1995, 2512, 3162, 3981, 5012, 6310, 7943>>

\* Math.log10 of x >= 1, in 1/10, rounded down: the decade of x and then the
\* tenth of a decade its mantissa has reached
Log10Tenths(x) ==
    LET decade == IF x >= 10000 THEN 4 ELSE IF x >= 1000 THEN 3
                  ELSE IF x >= 100 THEN 2 ELSE IF x >= 10 THEN 1 ELSE 0
        power == <<1, 10, 100, 1000, 10000>>[decade + 1]
        mantissa == (x * 1000) \div power
        tenth == CHOOSE k \in 0..9 :
                    /\ Pow10Tenth[k + 1] <= mantissa
                    /\ k < 9 => mantissa < Pow10Tenth[k + 2]
    IN  10 * decade + tenth

\* getVolume: db = 25 * Math.log10(rms + 0.0001), in 1/10 dB
Decibel(rms) == 25 * (Log10Tenths(rms + 1) - 40)

\* A getVolume that maps the decibels to the scale without Math.max(0, ...)
VolumeOfUnclamped(buffer) ==
    Min(1000, (Min(1000, ((Decibel(Rms(buffer)) + 600) * 100) \div 60) * 12) \div 10)

\* getVolume on an active analyzer with a running context: the amplified
\* volume for the buffer, in 1/10 (1000 is the volume 100)
VolumeOf(buffer) ==
    LET volume == Max(0, Min(1000, ((Decibel(Rms(buffer)) + 600) * 100) \div 60))
    IN  Min(1000, (volume * 12) \div 10)

RECURSIVE SumAbs(_, _)
\* autoCorrelate: sum of Math.abs(normalized[i]) from sample i on, in 1/128
SumAbs(buffer, i) ==
    IF i > Len(buffer) THEN 0
    ELSE Abs(buffer[i] - 128) + SumAbs(buffer, i + 1)

RECURSIVE Correlation(_, _, _)
\* autoCorrelate: correlations[lag], summed from sample i on, in 1/16384
Correlation(buffer, lag, i) ==
    IF i + lag > Len(buffer) THEN 0
    ELSE (buffer[i] - 128) * (buffer[i + lag] - 128) + Correlation(buffer, lag, i + 1)

RECURSIVE BestLag(_, _, _, _, _)
\* autoCorrelate: the search for the peak from the given lag on (before the
\* limit); 0 if no correlation is greater than 0
BestLag(buffer, lag, limit, maxCorrelation, bestLag) ==
    IF lag >= limit THEN bestLag
    ELSE IF Correlation(buffer, lag, 1) > maxCorrelation
         THEN BestLag(buffer, lag + 1, limit, Correlation(buffer, lag, 1), lag)
         ELSE BestLag(buffer, lag + 1, limit, maxCorrelation, bestLag)

\* An autoCorrelate that returns the lag of the peak, signed by the
\* correlation at the shortest lag
AutoCorrelateSigned(buffer, sampleRate) ==
    IF Correlation(buffer, sampleRate \div 1000, 1) < 0 THEN 0 - sampleRate ELSE 0

\* autoCorrelate(buffer, sampleRate): the frequency in Hz, rounded down; 0 for
\* silence (sum < 0.01) and when no peak is found
AutoCorrelate(buffer, sampleRate) ==
    LET minLag == sampleRate \div 1000
        maxLag == sampleRate \div 80
        bestLag == BestLag(buffer, minLag, Min(maxLag, Len(buffer)), 0, 0)
    IN  IF SumAbs(buffer, 1) * 100 < 128 THEN 0
        ELSE IF bestLag = 0 THEN 0
        ELSE sampleRate \div bestLag

\* Results the sample analysis of an active analyzer can produce
VolumeResults == {VolumeOf(buffer) : buffer \in Buffers}
PitchResults ==
    {AutoCorrelate(buffer, sampleRate) : buffer \in Buffers, sampleRate \in SampleRates}

\* DOMException names with which getUserMedia rejects
GumErrors == {"NotAllowedError", "NotFoundError", "NotReadableError"}

VARIABLES
    an,             \* the AudioAnalyzer object: its private fields
    web,            \* the browser objects: contexts, tracks, nodes
    pc,             \* where each initialize() call stands
    wasActive,      \* whether the suspended call found the analyzer active
    resumeCtx,      \* the context whose resume() the call awaits
    webAudioSupported,  \* window.AudioContext || window.webkitAudioContext
    aaOp,           \* the last AudioAnalyzer step: "new", "init" (a piece of
                    \* initialize that did not throw), "initFailed", "dispose",
                    \* "getVolume", "getPitch", "event" (a browser event)
    thrown,         \* the error the last step threw, "none" if it threw none
    pollResult,     \* what the last step returned, if it was a poll
    disposedSinceInit   \* dispose() returned and initialize() was not called since

aaVars == <<an, web, pc, wasActive, resumeCtx, webAudioSupported,
            aaOp, thrown, pollResult, disposedSinceInit>>

\* A dispose that forgets to lower the active flag
DisposeOfKeepsActive(a, w) ==
    [an |-> [a EXCEPT !.audioContext = 0, !.analyserNode = 0,
                      !.microphone = 0, !.mediaStream = 0, !.dataArray = 0],
     web |-> [track |-> IF a.mediaStream # 0
                        THEN [w.track EXCEPT ![a.mediaStream] = "none"]
                        ELSE w.track,
              mic |-> IF a.microphone # 0
                      THEN [w.mic EXCEPT ![a.microphone] = "none"]
                      ELSE w.mic,
              analyser |-> IF a.analyserNode # 0
                           THEN [w.analyser EXCEPT ![a.analyserNode] = "none"]
                           ELSE w.analyser,
              ctx |-> IF a.audioContext # 0
                      THEN [w.ctx EXCEPT ![a.audioContext] = "none"]
                      ELSE w.ctx]]

\* AudioAnalyzer.dispose: the analyzer and the browser objects after dispose().
\* track.stop() ends the track without an 'ended' event; the disconnect()
\* calls sit in try/catch; close() is requested here and completes in the
\* background, a context whose close() was called counts as closed.  A
\* released object (ended track, disconnected node, closed context) is
\* "none" again: web holds the objects that exist and are not released.
DisposeOf(a, w) ==
    [an |-> [active |-> FALSE, audioContext |-> 0, analyserNode |-> 0,
             microphone |-> 0, mediaStream |-> 0, dataArray |-> 0],
     web |-> [track |-> IF a.mediaStream # 0
                        THEN [w.track EXCEPT ![a.mediaStream] = "none"]
                        ELSE w.track,
              mic |-> IF a.microphone # 0
                      THEN [w.mic EXCEPT ![a.microphone] = "none"]
                      ELSE w.mic,
              analyser |-> IF a.analyserNode # 0
                           THEN [w.analyser EXCEPT ![a.analyserNode] = "none"]
                           ELSE w.analyser,
              ctx |-> IF a.audioContext # 0
                      THEN [w.ctx EXCEPT ![a.audioContext] = "none"]
                      ELSE w.ctx]]

\* The catch block of initialize: the error it throws for a caught one
ThrownFor(name) ==
    CASE name = "NotAllowedError" -> "PermissionDenied"
      [] name = "NotFoundError" -> "DeviceNotFound"
      [] OTHER -> name

\* AudioAnalyzer constructor (field initialisers), before any call
AAInit ==
    /\ an = [active |-> FALSE, audioContext |-> 0, analyserNode |-> 0,
             microphone |-> 0, mediaStream |-> 0, dataArray |-> 0]
    /\ web = [track |-> [c \in Calls |-> "none"],
              mic |-> [c \in Calls |-> "none"],
              analyser |-> [c \in Calls |-> "none"],
              ctx |-> [c \in Calls |-> "none"]]
    /\ pc = [c \in Calls |-> "idle"]
    /\ wasActive = [c \in Calls |-> FALSE]
    /\ resumeCtx = [c \in Calls |-> 0]
    /\ webAudioSupported \in BOOLEAN
    /\ aaOp = "new"
    /\ thrown = "none"
    /\ pollResult = 0
    /\ disposedSinceInit = FALSE

\* initialize, from the Web Audio support check to the await of
\* getUserMedia: the outcome of this piece for call i; startState is the
\* state in which the browser hands out the new AudioContext
AcquireContext(a, w, i, startState) ==
    IF ~webAudioSupported
    THEN [an |-> a, web |-> w, pc |-> "failed",
          err |-> ThrownFor("UnsupportedPlatform"), resumeCtx |-> 0]
    ELSE [an |-> [a EXCEPT !.audioContext = i],
          web |-> [w EXCEPT !.ctx[i] = startState],
          pc |-> "waitGUM", err |-> "none", resumeCtx |-> 0]

\* initialize, from the resolution of getUserMedia to the await of resume()
\* or, when the context is running, to the end: the outcome for call i
AfterGetUserMedia(a, w, i) ==
    LET a1 == [a EXCEPT !.mediaStream = i]
        w1 == [w EXCEPT !.track[i] = "live"]
        a2 == [a1 EXCEPT !.analyserNode = i, !.microphone = i]
        w2 == [w1 EXCEPT !.analyser[i] = "created", !.mic[i] = "connected"]
    IN  IF a.audioContext = 0
        THEN \* this.audioContext.createAnalyser() on null
             [an |-> a1, web |-> w1, pc |-> "failed",
              err |-> ThrownFor("TypeError"), resumeCtx |-> 0]
        ELSE IF w.ctx[a.audioContext] = "suspended"
        THEN [an |-> a2, web |-> w2, pc |-> "waitResume", err |-> "none",
              resumeCtx |-> a.audioContext]
        ELSE [an |-> [a2 EXCEPT !.dataArray = 1, !.active = TRUE],
              web |-> w2, pc |-> "done", err |-> "none", resumeCtx |-> 0]

\* initialize, after the await of resume(): the outcome for call i;
\* resolved tells whether the promise resolved or rejected
AfterResume(a, w, i, resolved) ==
    IF ~resolved
    THEN [an |-> a, web |-> w, pc |-> "failed",
          err |-> ThrownFor("InvalidStateError"), resumeCtx |-> 0]
    ELSE IF a.analyserNode = 0
    THEN \* this.analyserNode.frequencyBinCount on null
         [an |-> a, web |-> w, pc |-> "failed",
          err |-> ThrownFor("TypeError"), resumeCtx |-> 0]
    ELSE [an |-> [a EXCEPT !.dataArray = 1, !.active = TRUE],
          web |-> w, pc |-> "done", err |-> "none", resumeCtx |-> 0]

\* One piece of call i has run with outcome r: the call awaits again, or
\* its promise settles (resolved "done", rejected "failed" with r.err)
Piece(i, r, found) ==
    /\ an' = r.an
    /\ web' = r.web
    /\ pc' = [pc EXCEPT ![i] = IF r.pc \in {"done", "failed"}
                               THEN "settled" ELSE r.pc]
    /\ wasActive' = [wasActive EXCEPT ![i] = IF r.pc \in {"done", "failed"}
                                             THEN FALSE ELSE found]
    /\ resumeCtx' = [resumeCtx EXCEPT ![i] = r.resumeCtx]
    /\ aaOp' = IF r.pc = "failed" THEN "initFailed" ELSE "init"
    /\ thrown' = r.err
    /\ pollResult' = 0

\* initialize() is called: the piece up to its first await
AAInitialize(i) ==
    /\ pc[i] = "idle"
    /\ \A j \in Calls : j < i => pc[j] # "idle"
    /\ Cardinality({j \in Calls : pc[j] \notin {"idle", "settled"}}) < MaxPending
    /\ \E startState \in {"suspended", "running"} :
          LET d == DisposeOf(an, web)
              r == IF an.active
                   THEN [an |-> d.an, web |-> d.web, pc |-> "waitTeardown",
                         err |-> "none", resumeCtx |-> 0]
                   ELSE AcquireContext(an, web, i, startState)
          IN  Piece(i, r, an.active)
    /\ disposedSinceInit' = FALSE
    /\ UNCHANGED webAudioSupported

\* The 100 ms timer after the clean-up of a re-initialisation fires
AATeardownDone(i) ==
    /\ pc[i] = "waitTeardown"
    /\ \E startState \in {"suspended", "running"} :
          Piece(i, AcquireContext(an, web, i, startState), wasActive[i])
    /\ UNCHANGED <<webAudioSupported, disposedSinceInit>>

\* getUserMedia resolves with a stream
AAGumResolved(i) ==
    /\ pc[i] = "waitGUM"
    /\ Piece(i, AfterGetUserMedia(an, web, i), wasActive[i])
    /\ UNCHANGED <<webAudioSupported, disposedSinceInit>>

\* getUserMedia rejects
AAGumRejected(i) ==
    /\ pc[i] = "waitGUM"
    /\ \E name \in GumErrors :
          Piece(i, [an |-> an, web |-> web, pc |-> "failed",
                    err |-> ThrownFor(name), resumeCtx |-> 0], wasActive[i])
    /\ UNCHANGED <<webAudioSupported, disposedSinceInit>>

\* A getVolume that trusts the nodes and forgets the active flag
GetVolumeGuardNoActive(a) == a.analyserNode = 0 \/ a.dataArray = 0

\* getVolume: the guard under which it returns 0 at once
GetVolumeGuard(a) == a.analyserNode = 0 \/ a.dataArray = 0 \/ ~a.active

\* getPitch: the guard under which it returns 0 at once
GetPitchGuard(a) ==
    a.analyserNode = 0 \/ a.dataArray = 0 \/ ~a.active \/ a.audioContext = 0

\* The browser completes a resume() of a suspended context: the context
\* runs.  resume() is called by initialize, which then awaits it, and by
\* getVolume on the context of an active analyzer, which does not.
AAContextRuns(c) ==
    /\ web.ctx[c] = "suspended"
    /\ \/ \E i \in Calls : pc[i] = "waitResume" /\ resumeCtx[i] = c
       \/ an.audioContext = c /\ ~GetVolumeGuard(an)
    /\ web' = [web EXCEPT !.ctx[c] = "running"]
    /\ aaOp' = "event"
    /\ thrown' = "none"
    /\ pollResult' = 0
    /\ UNCHANGED <<an, pc, wasActive, resumeCtx, webAudioSupported,
                   disposedSinceInit>>

\* The promise of resume() settles: it resolves once the context runs; when
\* the context was closed meanwhile it either resolves or rejects
AAResumeSettled(i) ==
    /\ pc[i] = "waitResume"
    /\ web.ctx[resumeCtx[i]] \in {"running", "none"}
    /\ \E resolved \in BOOLEAN :
          /\ ~resolved => web.ctx[resumeCtx[i]] = "none"
          /\ Piece(i, AfterResume(an, web, i, resolved), wasActive[i])
    /\ UNCHANGED <<webAudioSupported, disposedSinceInit>>

\* dispose() is called
AADispose ==
    /\ an' = DisposeOf(an, web).an
    /\ web' = DisposeOf(an, web).web
    /\ aaOp' = "dispose"
    /\ thrown' = "none"
    /\ pollResult' = 0
    /\ disposedSinceInit' = TRUE
    /\ UNCHANGED <<pc, wasActive, resumeCtx, webAudioSupported>>

\* The 'ended' listener that initialize put on the track of stream s runs
\* (the capture ended outside the program)
AATrackEnded(s) ==
    /\ web.track[s] = "live"
    /\ web' = [web EXCEPT !.track[s] = "none"]
    /\ an' = [an EXCEPT !.active = FALSE]
    /\ aaOp' = "event"
    /\ thrown' = "none"
    /\ pollResult' = 0
    /\ UNCHANGED <<pc, wasActive, resumeCtx, webAudioSupported,
                   disposedSinceInit>>

\* getVolume() is called
AAGetVolume ==
    /\ IF GetVolumeGuard(an)
       THEN pollResult' = 0
       ELSE IF an.audioContext # 0 /\ web.ctx[an.audioContext] = "suspended"
       THEN pollResult' = 0     \* and calls resume(), see AAContextRuns
       ELSE pollResult' \in VolumeResults
    /\ aaOp' = "getVolume"
    /\ thrown' = "none"
    /\ UNCHANGED <<an, web, pc, wasActive, resumeCtx, webAudioSupported,
                   disposedSinceInit>>

\* getPitch() is called
AAGetPitch ==
    /\ IF GetPitchGuard(an)
       THEN pollResult' = 0
       ELSE pollResult' \in PitchResults
    /\ aaOp' = "getPitch"
    /\ thrown' = "none"
    /\ UNCHANGED <<an, web, pc, wasActive, resumeCtx, webAudioSupported,
                   disposedSinceInit>>

(***************************************************************************)
(* ParticleSystem                                                          *)
(*                                                                         *)
(* The numbers of the simulation are fixed-point integers:                 *)
(*   positions and velocities in 1/10 px (per 60 Hz frame),                *)
(*   alpha in 1/1000, life in 1/60000, times (deltaTime, currentTime,      *)
(*   maxLife) in milliseconds, speeds of the converge phase in 1/1000 px   *)
(*   per frame.  Divisions round down.                                     *)
(***************************************************************************)

\* The fields of ParticleSystem, in the units above
gravity == 5
alphaDecayRate == 300
alphaThreshold == 300
convergenceSpeed == 4000
arrivalThreshold == 50

\* alpha: 1.0 and life: 1.0 of a new particle
AlphaOne == 1000
LifeOne == 60000

\* const stemSegments = 10 and const leafPoints = 5 of generateParticles
stemSegments == 10
leafPoints == 5

\* Bounds of the runs of the particle system
MaxGenerates == 2

\* Math.random() is drawn from the fractions n / RandMod, 0 <= n < RandMod
RandMod == 16

\* The states the random generator can be in when generateParticles starts
Seeds == {0, 1}

\* Math.random(): draw number k of the generator started with seed, as the
\* numerator of a fraction of RandMod
Rand(seed, k) == ((seed + 1) * (7 * k + 3) + k * k) % RandMod

\* cos and sin, times 10, of the emission angles the model draws
Dirs == << <<10, 0>>, <<6, 8>>, <<0, 10>>, <<-6, 8>>,
           <<-10, 0>>, <<-6, -8>>, <<0, -10>>, <<6, -8>> >>

\* seedPosition handed to the constructor: { x: 400, y: 450 }
seedPosition == [x |-> 4000, y |-> 4500]

\* Inputs of generateParticles
StemHeights == {2000}
\* The plants handed over: none but the stem, or one leaf and two flower points
Plants ==
    { [leaves |-> <<>>, flowerPoints |-> <<>>],
      [leaves |-> << [x |-> 4000, y |-> 3500, dir |-> 5, size |-> 500] >>,
       flowerPoints |-> << [x |-> 4000, y |-> 2500], [x |-> 4100, y |-> 2500] >>] }
PsVolumes == {0, 100}
PsPitches == {200, 800}
CurrentTimes == {0, 1000}
DeltaTimes == {0, 2000}

VARIABLES
    particles,      \* ParticleSystem.particles
    phase,          \* ParticleSystem.phase
    psOp,           \* the last operation: "new", "generate", "update", "reset"
    psPrev,         \* phase and number of particles before the last operation
    psIn,           \* of the last generateParticles: the numbers of flower
                    \* points and leaves, pitch and currentTime; of the
                    \* last update: deltaTime
    psGenerates     \* generateParticles calls so far

psVars == <<particles, phase, psOp, psPrev, psIn, psGenerates>>

\* Math.sqrt(dx * dx + dy * dy); operands too large to square are scaled
\* down first and the root scaled back
Distance(dx, dy) ==
    LET a == Abs(dx)
        b == Abs(dy)
        k == Max(a, b) \div 32000 + 1
    IN  ISqrt((a \div k) * (a \div k) + (b \div k) * (b \div k)) * k

\* generateParticles: normalizedPitch, in 1/1000
NormalizedPitch(pitch) == Max(0, Min(1000, ((pitch - 200) * 1000) \div 600))

\* generateParticles: verticalBias = (normalizedPitch - 0.5) * 2, in 1/1000
VerticalBias(pitch) == (NormalizedPitch(pitch) - 500) * 2

\* One particle of generateParticles: number n of the call (from 0), at
\* (x, y), for the given volume and pitch
NewParticle(n, x, y, volume, pitch, currentTime, seed, partType) ==
    LET baseSpeed == 1000 + (volume * 4000) \div 100          \* 1/1000 px
        verticalBias == VerticalBias(pitch)
        angle == Dirs[(Rand(seed, 4 * n + 1) * 8) \div RandMod + 1]
        speed == (baseSpeed * (800 + (Rand(seed, 4 * n + 2) * 400) \div RandMod))
                     \div 1000                                \* 1/1000 px
        vx == (angle[1] * speed) \div 10
        vy == (angle[2] * speed) \div 10 + (verticalBias * speed) \div 2000
    IN  [x |-> x, y |-> y,
         vx |-> vx \div 100, vy |-> vy \div 100,
         alpha |-> AlphaOne,
         size |-> 2000 + (Rand(seed, 4 * n + 3) * 2000) \div RandMod,
         targetX |-> seedPosition.x, targetY |-> seedPosition.y,
         life |-> LifeOne,
         maxLife |-> 3000 + (Rand(seed, 4 * n + 4) * 2000) \div RandMod,
         birthTime |-> currentTime,
         partType |-> partType]

\* generateParticles, first loop: one particle for each flower point
FlowerParticles(flowerPoints, volume, pitch, currentTime, seed) ==
    [j \in 1..Len(flowerPoints) |->
        NewParticle(j - 1, flowerPoints[j].x, flowerPoints[j].y,
                    volume, pitch, currentTime, seed, "flower")]

\* A second loop that stops before i = stemSegments
StemParticlesExclusive(first, stemHeight, volume, pitch, currentTime, seed) ==
    [j \in 1..stemSegments |->
        NewParticle(first + j - 1, seedPosition.x,
                    seedPosition.y - (stemHeight * (j - 1)) \div stemSegments,
                    volume, pitch, currentTime, seed, "stem")]

\* generateParticles, second loop (i = 0; i <= stemSegments): particles along
\* the stem; first is the number of particles made before them
StemParticles(first, stemHeight, volume, pitch, currentTime, seed) ==
    [j \in 1..(stemSegments + 1) |->
        NewParticle(first + j - 1, seedPosition.x,
                    seedPosition.y - (stemHeight * (j - 1)) \div stemSegments,
                    volume, pitch, currentTime, seed, "stem")]

\* generateParticles, third loop: leafPoints particles along each leaf
LeafParticles(first, leaves, volume, pitch, currentTime, seed) ==
    [j \in 1..(Len(leaves) * leafPoints) |->
        LET leaf == leaves[(j - 1) \div leafPoints + 1]
            i == (j - 1) % leafPoints
        IN  NewParticle(first + j - 1,
                        leaf.x + (Dirs[leaf.dir][1] * leaf.size * i)
                                     \div (10 * (leafPoints - 1)),
                        leaf.y + (Dirs[leaf.dir][2] * leaf.size * i)
                                     \div (10 * (leafPoints - 1)),
                        volume, pitch, currentTime, seed, "leaf")]

\* A generateParticles that pushes onto the particles it finds
GenerateOfAppends(old, stemHeight, leaves, flowerPoints, volume, pitch, currentTime, seed) ==
    old \o FlowerParticles(flowerPoints, volume, pitch, currentTime, seed)
        \o StemParticles(Len(flowerPoints), stemHeight, volume, pitch,
                         currentTime, seed)
        \o LeafParticles(Len(flowerPoints) + stemSegments + 1, leaves, volume,
                         pitch, currentTime, seed)

\* generateParticles: the particles after the call (old: those before it,
\* dropped by this.particles = [])
GenerateOf(old, stemHeight, leaves, flowerPoints, volume, pitch, currentTime, seed) ==
    FlowerParticles(flowerPoints, volume, pitch, currentTime, seed)
        \o StemParticles(Len(flowerPoints), stemHeight, volume, pitch,
                         currentTime, seed)
        \o LeafParticles(Len(flowerPoints) + stemSegments + 1, leaves, volume,
                         pitch, currentTime, seed)

\* An updateScatterPhase whose loop body leaves the particle as it is
ScatterStepFrozen(p, deltaTime) == p

\* An updateScatterPhase that decays alpha and life without Math.max(0, ...)
ScatterStepUnfloored(p, deltaTime) ==
    LET vy == p.vy + (gravity * deltaTime * 3) \div 50
    IN  [p EXCEPT !.vy = vy,
                  !.x = p.x + (p.vx * deltaTime * 3) \div 50,
                  !.y = p.y + (vy * deltaTime * 3) \div 50,
                  !.alpha = p.alpha - (alphaDecayRate * deltaTime) \div 1000,
                  !.life = p.life - (deltaTime * LifeOne) \div p.maxLife]

\* An updateScatterPhase that does not apply the gravity to vy
ScatterStepNoGravity(p, deltaTime) ==
    [p EXCEPT !.x = p.x + (p.vx * deltaTime * 3) \div 50,
              !.y = p.y + (p.vy * deltaTime * 3) \div 50,
              !.alpha = Max(0, p.alpha - (alphaDecayRate * deltaTime) \div 1000),
              !.life = Max(0, p.life - (deltaTime * LifeOne) \div p.maxLife)]

\* updateScatterPhase, the loop body: one particle after deltaTime
ScatterStep(p, deltaTime) ==
    LET vy == p.vy + (gravity * deltaTime * 3) \div 50
    IN  [p EXCEPT !.vy = vy,
                  !.x = p.x + (p.vx * deltaTime * 3) \div 50,
                  !.y = p.y + (vy * deltaTime * 3) \div 50,
                  !.alpha = Max(0, p.alpha - (alphaDecayRate * deltaTime) \div 1000),
                  !.life = Max(0, p.life - (deltaTime * LifeOne) \div p.maxLife)]

RECURSIVE SumAlpha(_, _)
\* particles.reduce((sum, p) => sum + p.alpha, 0), from particle j on
SumAlpha(ps, j) == IF j > Len(ps) THEN 0 ELSE ps[j].alpha + SumAlpha(ps, j + 1)

\* An updateScatterPhase for which the average alpha of no particles is 0
BelowAlphaThresholdOrEmpty(ps) ==
    Len(ps) = 0 \/ SumAlpha(ps, 1) < alphaThreshold * Len(ps)

\* updateScatterPhase, the test after the loop: avgAlpha < alphaThreshold.
\* Without particles avgAlpha is 0 / 0 = NaN and the comparison is false.
BelowAlphaThreshold(ps) ==
    Len(ps) > 0 /\ SumAlpha(ps, 1) < alphaThreshold * Len(ps)

\* An updateConvergePhase with the same speed at every distance
ConvergeSpeedFlat(distance) == convergenceSpeed

\* updateConvergePhase: the speed for a particle at the given distance
ConvergeSpeed(distance) ==
    LET q == 3000 - Min(distance, 3000)     \* (1 - distanceRatio) * 3000
        cube == (((q * q) \div 3000) * q) \div 3000
    IN  (convergenceSpeed * (4000 - cube)) \div 1000

\* dirX * length for dirX = d / distance: the share of length that falls on
\* a coordinate with difference d, rounded towards 0 (large differences are
\* scaled so that the product stays within 32 bits)
Along(d, length, distance) ==
    LET k == Abs(d) \div 60000 + 1
        part == (((Abs(d) \div k) * length) \div distance) * k
    IN  IF length = distance THEN d
        ELSE IF d < 0 THEN 0 - part ELSE part

\* An updateConvergePhase that moves by speed * deltaTime * 60 without
\* limiting the move to the distance that is left
ConvergeMoveUncapped(p, deltaTime, distance) ==
    LET moveDistance == (ConvergeSpeed(distance) * deltaTime * 6) \div 10000
    IN  IF distance > arrivalThreshold
        THEN [p EXCEPT !.x = p.x + Along(p.targetX - p.x, moveDistance, distance),
                       !.y = p.y + Along(p.targetY - p.y, moveDistance, distance)]
        ELSE p

\* An updateConvergePhase that records the velocity and leaves the position
ConvergeMoveInPlace(p, deltaTime, distance) ==
    IF distance > arrivalThreshold
    THEN [p EXCEPT !.vx = Along(p.targetX - p.x, (ConvergeSpeed(distance) * 3) \div 5, distance),
                   !.vy = Along(p.targetY - p.y, (ConvergeSpeed(distance) * 3) \div 5, distance)]
    ELSE [p EXCEPT !.vx = 0, !.vy = 0]

\* updateConvergePhase, the loop body after const distance = ...: the
\* particle after deltaTime, distance being its distance to the target
ConvergeMove(p, deltaTime, distance) ==
    LET dx == p.targetX - p.x
        dy == p.targetY - p.y
        speed == ConvergeSpeed(distance)
        moveDistance == Min((speed * deltaTime * 6) \div 10000, distance)
        proximityRatio == Max(0, 2000 - distance)           \* times 2000
        alpha == Min(AlphaOne,
                     p.alpha + (((3 * deltaTime) \div 10) * proximityRatio) \div 2000)
    IN  IF distance > arrivalThreshold
        THEN [p EXCEPT !.x = p.x + Along(dx, moveDistance, distance),
                       !.y = p.y + Along(dy, moveDistance, distance),
                       !.vx = Along(dx, (speed * 3) \div 5, distance),
                       !.vy = Along(dy, (speed * 3) \div 5, distance),
                       !.alpha = alpha]
        ELSE [p EXCEPT !.vx = 0, !.vy = 0, !.alpha = alpha]

\* updateConvergePhase, the loop body: one particle after deltaTime
ConvergeStep(p, deltaTime) ==
    LET At[distance \in Nat] == ConvergeMove(p, deltaTime, distance)
    IN  At[Distance(p.targetX - p.x, p.targetY - p.y)]

RECURSIVE ArrivedFrom(_, _)
\* allParticlesArrived, the loop from particle j on: false at the first
\* particle farther from its target than arrivalThreshold, true at the end
ArrivedFrom(ps, j) ==
    IF j > Len(ps) THEN TRUE
    ELSE IF Distance(ps[j].targetX - ps[j].x, ps[j].targetY - ps[j].y) > arrivalThreshold
         THEN FALSE
         ELSE ArrivedFrom(ps, j + 1)

\* An allParticlesArrived without the test of the phase
AllParticlesArrivedAnyPhase(ps, ph) == ArrivedFrom(ps, 1)

\* allParticlesArrived for the particles ps in phase ph
AllParticlesArrived(ps, ph) ==
    IF ph # "converge" THEN FALSE ELSE ArrivedFrom(ps, 1)

\* ParticleSystem constructor (field initialisers)
PSInit ==
    /\ particles = <<>>
    /\ phase = "scatter"
    /\ psOp = "new"
    /\ psPrev = [phase |-> "scatter", count |-> 0]
    /\ psIn = [flowerPoints |-> 0, leaves |-> 0, pitch |-> 0, currentTime |-> 0,
               deltaTime |-> 0]
    /\ psGenerates = 0

\* generateParticles(stemHeight, leaves, flowerPoints, volume, pitch, currentTime)
PSGenerate ==
    /\ psGenerates < MaxGenerates
    /\ \E stemHeight \in StemHeights, plant \in Plants, volume \in PsVolumes,
          pitch \in PsPitches, currentTime \in CurrentTimes, seed \in Seeds :
          /\ particles' = GenerateOf(particles, stemHeight, plant.leaves,
                                     plant.flowerPoints, volume, pitch,
                                     currentTime, seed)
          /\ psIn' = [flowerPoints |-> Len(plant.flowerPoints),
                      leaves |-> Len(plant.leaves), pitch |-> pitch,
                      currentTime |-> currentTime, deltaTime |-> 0]
    /\ phase' = "scatter"
    /\ psOp' = "generate"
    /\ psPrev' = [phase |-> phase, count |-> Len(particles)]
    /\ psGenerates' = psGenerates + 1

\* An update that chooses the phase by the average alpha in the converge
\* phase as well
PSUpdateWithRescatter(deltaTime) ==
    /\ IF phase = "scatter"
       THEN \E moved \in {[j \in 1..Len(particles) |->
                               ScatterStep(particles[j], deltaTime)]} :
               /\ particles' = moved
               /\ phase' = IF BelowAlphaThreshold(moved)
                           THEN "converge" ELSE phase
       ELSE \E moved \in {[j \in 1..Len(particles) |->
                               ConvergeStep(particles[j], deltaTime)]} :
               /\ particles' = moved
               /\ phase' = IF BelowAlphaThreshold(moved)
                           THEN "converge" ELSE "scatter"
    /\ psIn' = [psIn EXCEPT !.deltaTime = deltaTime]
    /\ psOp' = "update"
    /\ psPrev' = [phase |-> phase, count |-> Len(particles)]
    /\ UNCHANGED psGenerates

\* update(deltaTime, currentTime) with the given deltaTime
PSUpdateWith(deltaTime) ==
    /\ IF phase = "scatter"
       THEN \E moved \in {[j \in 1..Len(particles) |->
                               ScatterStep(particles[j], deltaTime)]} :
               /\ particles' = moved
               /\ phase' = IF BelowAlphaThreshold(moved)
                           THEN "converge" ELSE phase
       ELSE /\ particles' = [j \in 1..Len(particles) |->
                               ConvergeStep(particles[j], deltaTime)]
            /\ phase' = phase
    /\ psIn' = [psIn EXCEPT !.deltaTime = deltaTime]
    /\ psOp' = "update"
    /\ psPrev' = [phase |-> phase, count |-> Len(particles)]
    /\ UNCHANGED psGenerates

\* update(deltaTime, currentTime)
PSUpdate == \E deltaTime \in DeltaTimes : PSUpdateWith(deltaTime)

\* reset()
PSReset ==
    /\ particles' = <<>>
    /\ phase' = "scatter"
    /\ psOp' = "reset"
    /\ psPrev' = [phase |-> phase, count |-> Len(particles)]
    /\ UNCHANGED <<psIn, psGenerates>>

(***************************************************************************)
(* The sketch (main.ts): p.draw and the analyzer polls of one tick          *)
(***************************************************************************)

MaxSignal == 2          \* generations of the signal the audio thread renders
MaxTicks == 5           \* p.draw calls

VARIABLES
    growthState,    \* state.growthState
    seedResetTime,  \* state.seedResetTime: "first" (-1), "ringing" (set less
                    \* than 5 s ago) or "grown" (set 5 s ago or longer)
    isDemoMode,     \* isDemoMode
    isAudioReady,   \* isAudioReady
    signal,         \* the generation of the signal in the analyser node
    drawPc,         \* where p.draw is: "idle" between two calls, then
                    \* "smoothing", "scatter", "display"
    volumeReads,    \* the getVolume calls of this p.draw: <<line, generation>>
    pitchReads,     \* the getPitch calls of this p.draw: <<line, generation>>
    ticks           \* p.draw calls finished

skVars == <<growthState, seedResetTime, isDemoMode, isAudioReady, signal, drawPc,
            volumeReads, pitchReads, ticks>>

\* createInitialState and the flags of the sketch
SKInit ==
    /\ growthState = "SEED"
    /\ seedResetTime = "first"
    /\ isDemoMode = FALSE
    /\ isAudioReady = FALSE
    /\ signal = 0
    /\ drawPc = "idle"
    /\ volumeReads = <<>>
    /\ pitchReads = <<>>
    /\ ticks = 0

\* audioAnalyzer.getVolume() at the given line of main.ts
PollVolume(reads, line) == Append(reads, <<line, signal>>)

\* audioAnalyzer.getPitch() at the given line of main.ts
PollPitch(reads, line) == Append(reads, <<line, signal>>)

\* The audio thread renders the next block: the analyser node holds a new
\* generation of the signal. It runs beside p.draw.
SKAudioRender ==
    /\ signal < MaxSignal
    /\ signal' = signal + 1
    /\ UNCHANGED <<growthState, seedResetTime, isDemoMode, isAudioReady, drawPc,
                   volumeReads, pitchReads, ticks>>

\* The initialize() of p.setup or of the demo toggle has resolved
SKAudioReady ==
    /\ drawPc = "idle"
    /\ ~isDemoMode /\ ~isAudioReady
    /\ isAudioReady' = TRUE
    /\ UNCHANGED <<growthState, seedResetTime, isDemoMode, signal, drawPc,
                   volumeReads, pitchReads, ticks>>

\* Click on the demo toggle: to the demo mode (the analyzer is disposed) or
\* back to the microphone (ready once initialize() has resolved)
SKDemoToggle ==
    /\ drawPc = "idle"
    /\ isDemoMode' = ~isDemoMode
    /\ isAudioReady' = FALSE
    /\ UNCHANGED <<growthState, seedResetTime, signal, drawPc, volumeReads,
                   pitchReads, ticks>>

\* p.draw, up to the first input of the branch for the state: the seed
\* waiting for a voice, the seed ringing, the sprout, or the bloom
SKDrawState ==
    /\ drawPc = "idle"
    /\ ticks < MaxTicks
    /\ drawPc' = IF seedResetTime = "grown" /\ growthState = "BLOOM"
                 THEN "smoothing" ELSE "scatter"
    /\ IF seedResetTime = "first" /\ growthState # "SCATTER"
       THEN /\ growthState' = "SEED"
            /\ volumeReads' = IF ~isDemoMode /\ isAudioReady
                              THEN PollVolume(<<>>, 197) ELSE <<>>
            /\ pitchReads' = <<>>
            /\ \/ seedResetTime' = seedResetTime
               \/ (isDemoMode \/ isAudioReady) /\ seedResetTime' = "ringing"
       ELSE IF seedResetTime = "ringing" /\ growthState # "SCATTER"
       THEN /\ growthState' = "SEED"
            /\ volumeReads' = IF ~isDemoMode /\ isAudioReady
                              THEN PollVolume(<<>>, 245) ELSE <<>>
            /\ pitchReads' = <<>>
            /\ seedResetTime' \in {"ringing", "grown"}
       ELSE IF growthState \in {"SEED", "SPROUT"}
       THEN /\ \/ /\ growthState' = "BLOOM"
                  /\ volumeReads' = <<>>
                  /\ pitchReads' = <<>>
               \/ /\ growthState' = "SPROUT"
                  /\ volumeReads' = IF ~isDemoMode
                                    THEN PollVolume(<<>>, 317) ELSE <<>>
                  /\ pitchReads' = IF ~isDemoMode
                                   THEN PollPitch(<<>>, 318) ELSE <<>>
            /\ UNCHANGED seedResetTime
       ELSE /\ growthState' = growthState
            /\ volumeReads' = IF ~isDemoMode /\ growthState = "BLOOM"
                              THEN PollVolume(<<>>, 576) ELSE <<>>
            /\ pitchReads' = IF ~isDemoMode /\ growthState = "BLOOM"
                             THEN PollPitch(<<>>, 577) ELSE <<>>
            /\ UNCHANGED seedResetTime
    /\ UNCHANGED <<isDemoMode, isAudioReady, signal, ticks>>

\* p.draw, the bloom going on: the input for the smoothed values of the
\* sprout, and the change to the scatter state at the end of the bloom
SKDrawSmoothing ==
    /\ drawPc = "smoothing"
    /\ drawPc' = "scatter"
    /\ volumeReads' = IF ~isDemoMode
                      THEN PollVolume(volumeReads, 647) ELSE volumeReads
    /\ pitchReads' = IF ~isDemoMode
                     THEN PollPitch(pitchReads, 648) ELSE pitchReads
    /\ growthState' \in {"BLOOM", "SCATTER"}
    /\ UNCHANGED <<seedResetTime, isDemoMode, isAudioReady, signal, ticks>>

\* p.draw, the scatter state: the input for the particles, and the return to
\* the seed once the particles have converged
SKDrawScatter ==
    /\ drawPc = "scatter"
    /\ drawPc' = "display"
    /\ IF growthState = "SCATTER"
       THEN /\ volumeReads' = IF ~isDemoMode
                              THEN PollVolume(volumeReads, 900) ELSE volumeReads
            /\ pitchReads' = IF ~isDemoMode
                             THEN PollPitch(pitchReads, 901) ELSE pitchReads
            /\ \/ UNCHANGED <<growthState, seedResetTime>>
               \/ growthState' = "SEED" /\ seedResetTime' = "ringing"
       ELSE UNCHANGED <<volumeReads, pitchReads, growthState, seedResetTime>>
    /\ UNCHANGED <<isDemoMode, isAudioReady, signal, ticks>>

\* p.draw, the text in the corner: the volume of the microphone is read again
\* to be shown
SKDrawDisplay ==
    /\ drawPc = "display"
    /\ drawPc' = "idle"
    /\ ticks' = ticks + 1
    /\ volumeReads' =
          IF growthState = "SEED"
          THEN IF ~isDemoMode /\ isAudioReady
               THEN PollVolume(volumeReads, 1151) ELSE volumeReads
          ELSE IF ~isDemoMode THEN PollVolume(volumeReads, 1185) ELSE volumeReads
    /\ UNCHANGED <<growthState, seedResetTime, isDemoMode, isAudioReady, signal,
                   pitchReads>>

(***************************************************************************)
(* GrowthController                                                        *)
(*                                                                         *)
(* growthSpeed is kept in 1/1000000 (for a whole volume it is exact),      *)
(* swayAmount in 1/100, colorHue and colorLightness in 1/10 and            *)
(* colorSaturation in 1/100.                                               *)
(***************************************************************************)

SpeedOne == 1000000
GcVolumes == 0..100 \cup {-100, -1, 101, 150}
GcPitches == {100, 300}
GcDeltaTimes == {0, 16}
BasePitches == {300, 440}

\* Pitches at and beyond the ends of the colour ramp (negative, very large),
\* tried with a few volumes
GcExtremePitches == {-100, 200, 400, 100000}
GcMidVolumes == {0, 50, 100}

\* The arguments of update(volume, pitch, deltaTime)
GcInputs ==
    [volume : GcVolumes, pitch : GcPitches, deltaTime : GcDeltaTimes]
        \cup [volume : GcMidVolumes, pitch : GcExtremePitches, deltaTime : GcDeltaTimes]

VARIABLES
    basePitch,      \* GrowthController.basePitch
    gcOp,           \* the last operation: "new", "update", "setBasePitch"
    gcIn,           \* volume, pitch and deltaTime of the last update
    gcOut           \* the GrowthParameters the last update returned

gcVars == <<basePitch, gcOp, gcIn, gcOut>>

\* A calculateGrowthSpeed that eases in with the square of the volume
CalculateGrowthSpeedSquared(volume) == SpeedOne + 200 * volume * volume

\* calculateGrowthSpeed: 1 + easedVolume * 2 with easedVolume =
\* n * n * (3 - 2 * n) and n = volume / 100
CalculateGrowthSpeed(volume) ==
    SpeedOne + 2 * (volume * volume * (300 - 2 * volume))

\* calculateSwayAmount: (pitch - basePitch) / 100
CalculateSwayAmount(pitch, base) == pitch - base

\* calculateColorHue
CalculateColorHue(pitch) ==
    IF pitch <= 200 THEN 1200
    ELSE IF pitch >= 400 THEN 1800
    ELSE 1200 + (pitch - 200) * 3

\* calculateColorSaturation
CalculateColorSaturation(pitch) ==
    IF pitch <= 200 THEN 5000
    ELSE IF pitch >= 400 THEN 8000
    ELSE 5000 + (pitch - 200) * 15

\* A calculateColorLightness without Math.max(30, Math.min(70, ...))
CalculateColorLightnessUnclamped(pitch) == 300 + pitch

\* calculateColorLightness
CalculateColorLightness(pitch) == Max(300, Min(700, 300 + pitch))

\* update(volume, pitch, deltaTime): the GrowthParameters it returns
GrowthParametersOf(volume, pitch, deltaTime, base) ==
    [growthSpeed |-> CalculateGrowthSpeed(volume),
     swayAmount |-> CalculateSwayAmount(pitch, base),
     colorHue |-> CalculateColorHue(pitch),
     colorSaturation |-> CalculateColorSaturation(pitch),
     colorLightness |-> CalculateColorLightness(pitch)]

\* GrowthController constructor (field initialiser)
GCInit ==
    /\ basePitch = 300
    /\ gcOp = "new"
    /\ gcIn = [volume |-> 0, pitch |-> 0, deltaTime |-> 0]
    /\ gcOut = GrowthParametersOf(0, 0, 0, 300)

\* update(volume, pitch, deltaTime)
GCUpdate ==
    /\ \E in \in GcInputs :
          /\ gcIn' = in
          /\ gcOut' = GrowthParametersOf(in.volume, in.pitch, in.deltaTime, basePitch)
    /\ gcOp' = "update"
    /\ UNCHANGED basePitch

\* setBasePitch(pitch)
GCSetBasePitch ==
    /\ \E pitch \in BasePitches : basePitch' = pitch
    /\ gcOp' = "setBasePitch"
    /\ UNCHANGED <<gcIn, gcOut>>

(***************************************************************************)
(* RoseCurve                                                               *)
(*                                                                         *)
(* Angles are counted in units of pi / 48, k in halves (k2 = 2 * k), and   *)
(* radii in 1/1000.  A point is [r, theta, nan]; nan says that r and theta *)
(* are NaN, with which no comparison is true.                              *)
(***************************************************************************)

Pi == 48
RcAmplitudes == {-50, 0, 10, 100}
RcK2s == {2, 4, 5, 6, 7, 14}
RcSegments == {0, 1, 2, 3, 4, 6, 8, 12}

VARIABLES
    rcOp,           \* the last operation: "new", "calculateCurve"
    rcIn,           \* a, k2 and segments of the last calculateCurve
    rcOut           \* the points the last calculateCurve returned

rcVars == <<rcOp, rcIn, rcOut>>

\* Math.cos for the angles 0, 7.5, ..., 90 degrees, in 1/1000
CosTable == <<1000, 991, 966, 924, 866, 793, 707, 609, 500, 383, 259, 131, 0>>

\* Math.cos of an angle that is a multiple of 7.5 degrees (2 units), in 1/1000
Cos(angle) ==
    LET turn == Abs(angle) % (2 * Pi)
        half == IF turn > Pi THEN 2 * Pi - turn ELSE turn
    IN  IF 2 * half <= Pi THEN CosTable[half \div 2 + 1]
        ELSE 0 - CosTable[(Pi - half) \div 2 + 1]

\* getMaxTheta(k): 2 pi for a k within 0.01 of a whole number, else 4 pi
GetMaxTheta(k2) == IF k2 % 2 = 0 THEN 2 * Pi ELSE 4 * Pi

\* calculateCurve, the loop body: point i.  With segments = 0 the step is
\* maxTheta / 0 = Infinity and theta = 0 * Infinity = NaN, and so is r.
CurvePointOf(a, k2, segments, i) ==
    IF segments = 0 THEN [r |-> 0, theta |-> 0, nan |-> TRUE]
    ELSE LET theta == i * (GetMaxTheta(k2) \div segments)
             r == a * Cos((k2 * theta) \div 2)
         IN  [r |-> Abs(r),
              theta |-> IF r < 0 THEN theta + Pi ELSE theta,
              nan |-> FALSE]

\* calculateCurve(a, k, segments): the points for i = 0..segments
CalculateCurve(a, k2, segments) ==
    [j \in 1..(segments + 1) |-> CurvePointOf(a, k2, segments, j - 1)]

\* new RoseCurve()
RCInit ==
    /\ rcOp = "new"
    /\ rcIn = [a |-> 0, k2 |-> 2, segments |-> 0]
    /\ rcOut = <<>>

\* calculateCurve(a, k, segments)
RCCalculateCurve ==
    /\ \E a \in RcAmplitudes, k2 \in RcK2s, segments \in RcSegments :
          /\ rcIn' = [a |-> a, k2 |-> k2, segments |-> segments]
          /\ rcOut' = CalculateCurve(a, k2, segments)
    /\ rcOp' = "calculateCurve"

(***************************************************************************)
(* The sample analysis of AudioAnalyzer on buffers of any length           *)
(*                                                                         *)
(* The arithmetic of getVolume and autoCorrelate applied to a buffer of    *)
(* 0..bufferLength bytes.  A result is [nan, value, searched]: nan says    *)
(* that the number returned is NaN, value is the number otherwise, and     *)
(* searched that autoCorrelate went past its silence check.                *)
(***************************************************************************)

SampleBytes == {128, 129, 255}
SampleBuffers == UNION {[1..n -> SampleBytes] : n \in 0..bufferLength}

VARIABLES
    saOp,           \* the last operation: "new", "getVolume", "autoCorrelate"
    saIn,           \* the buffer and the sample rate it was applied to
    saOut           \* what it returned

saVars == <<saOp, saIn, saOut>>

\* getVolume, from the RMS loop on: for an empty buffer sum / length is
\* 0 / 0 = NaN, and Math.sqrt, Math.log10, Math.min and Math.max keep it
VolumeOfSamples(buffer) ==
    IF Len(buffer) = 0 THEN [nan |-> TRUE, value |-> 0, searched |-> FALSE]
    ELSE [nan |-> FALSE, value |-> VolumeOf(buffer), searched |-> FALSE]

\* autoCorrelate, the silence check: sum < 0.01
IsSilence(buffer) == SumAbs(buffer, 1) * 100 < 128

\* autoCorrelate and whether it computed the correlations and ran the search
AutoCorrelateOfSamples(buffer, sampleRate) ==
    [nan |-> FALSE, value |-> AutoCorrelate(buffer, sampleRate),
     searched |-> ~IsSilence(buffer)]

SAInit ==
    /\ saOp = "new"
    /\ saIn = [buffer |-> <<>>, sampleRate |-> 2000]
    /\ saOut = [nan |-> FALSE, value |-> 0, searched |-> FALSE]

\* getVolume's arithmetic on a buffer
SAGetVolume ==
    /\ \E buffer \in SampleBuffers, sampleRate \in SampleRates :
          /\ saIn' = [buffer |-> buffer, sampleRate |-> sampleRate]
          /\ saOut' = VolumeOfSamples(buffer)
    /\ saOp' = "getVolume"

\* autoCorrelate(buffer, sampleRate)
SAAutoCorrelate ==
    /\ \E buffer \in SampleBuffers, sampleRate \in SampleRates :
          /\ saIn' = [buffer |-> buffer, sampleRate |-> sampleRate]
          /\ saOut' = AutoCorrelateOfSamples(buffer, sampleRate)
    /\ saOp' = "autoCorrelate"

(***************************************************************************)
(* The specifications                                                      *)
(***************************************************************************)

vars == <<smVars, aaVars, psVars, skVars, gcVars, rcVars, saVars>>

Init == SMInit /\ AAInit /\ PSInit /\ SKInit /\ GCInit /\ RCInit /\ SAInit

NextStateMachine ==
    \/ SMUpdate /\ UNCHANGED <<aaVars, psVars, skVars, gcVars, rcVars, saVars>>
    \/ SMReset /\ UNCHANGED <<aaVars, psVars, skVars, gcVars, rcVars, saVars>>

SpecStateMachine == Init /\ [][NextStateMachine]_vars

NextAudioAnalyzer ==
    \/ \E i \in Calls : AAInitialize(i) /\ UNCHANGED <<smVars, psVars, skVars, gcVars, rcVars, saVars>>
    \/ \E i \in Calls : AATeardownDone(i) /\ UNCHANGED <<smVars, psVars, skVars, gcVars, rcVars, saVars>>
    \/ \E i \in Calls : AAGumResolved(i) /\ UNCHANGED <<smVars, psVars, skVars, gcVars, rcVars, saVars>>
    \/ \E i \in Calls : AAGumRejected(i) /\ UNCHANGED <<smVars, psVars, skVars, gcVars, rcVars, saVars>>
    \/ \E c \in Calls : AAContextRuns(c) /\ UNCHANGED <<smVars, psVars, skVars, gcVars, rcVars, saVars>>
    \/ \E i \in Calls : AAResumeSettled(i) /\ UNCHANGED <<smVars, psVars, skVars, gcVars, rcVars, saVars>>
    \/ AADispose /\ UNCHANGED <<smVars, psVars, skVars, gcVars, rcVars, saVars>>
    \/ \E s \in Calls : AATrackEnded(s) /\ UNCHANGED <<smVars, psVars, skVars, gcVars, rcVars, saVars>>
    \/ AAGetVolume /\ UNCHANGED <<smVars, psVars, skVars, gcVars, rcVars, saVars>>
    \/ AAGetPitch /\ UNCHANGED <<smVars, psVars, skVars, gcVars, rcVars, saVars>>

SpecAudioAnalyzer == Init /\ [][NextAudioAnalyzer]_vars

NextParticleSystem ==
    \/ PSGenerate /\ UNCHANGED <<smVars, aaVars, skVars, gcVars, rcVars, saVars>>
    \/ PSUpdate /\ UNCHANGED <<smVars, aaVars, skVars, gcVars, rcVars, saVars>>
    \/ PSReset /\ UNCHANGED <<smVars, aaVars, skVars, gcVars, rcVars, saVars>>

SpecParticleSystem == Init /\ [][NextParticleSystem]_vars

\* update called with deltaTime > 0
PSUpdatePositive ==
    /\ \E deltaTime \in DeltaTimes : deltaTime > 0 /\ PSUpdateWith(deltaTime)
    /\ UNCHANGED <<smVars, aaVars, skVars, gcVars, rcVars, saVars>>

\* The particle system as an animation drives it: generateParticles is called
\* on a system without particles (new or reset), update is called for every
\* frame, and keeps being called with the time that passed since the last
\* frame; reset may be called at any time
NextParticleLoop ==
    \/ particles = <<>> /\ PSGenerate /\ UNCHANGED <<smVars, aaVars, skVars, gcVars, rcVars, saVars>>
    \/ PSUpdate /\ UNCHANGED <<smVars, aaVars, skVars, gcVars, rcVars, saVars>>
    \/ PSReset /\ UNCHANGED <<smVars, aaVars, skVars, gcVars, rcVars, saVars>>

SpecParticleSystemLive ==
    Init /\ [][NextParticleLoop]_vars /\ WF_vars(PSUpdatePositive)

NextSketch ==
    \/ SKAudioRender /\ UNCHANGED <<smVars, aaVars, psVars, gcVars, rcVars, saVars>>
    \/ SKAudioReady /\ UNCHANGED <<smVars, aaVars, psVars, gcVars, rcVars, saVars>>
    \/ SKDemoToggle /\ UNCHANGED <<smVars, aaVars, psVars, gcVars, rcVars, saVars>>
    \/ SKDrawState /\ UNCHANGED <<smVars, aaVars, psVars, gcVars, rcVars, saVars>>
    \/ SKDrawSmoothing /\ UNCHANGED <<smVars, aaVars, psVars, gcVars, rcVars, saVars>>
    \/ SKDrawScatter /\ UNCHANGED <<smVars, aaVars, psVars, gcVars, rcVars, saVars>>
    \/ SKDrawDisplay /\ UNCHANGED <<smVars, aaVars, psVars, gcVars, rcVars, saVars>>

SpecSketch == Init /\ [][NextSketch]_vars

NextGrowthController ==
    \/ GCUpdate /\ UNCHANGED <<smVars, aaVars, psVars, skVars, rcVars, saVars>>
    \/ GCSetBasePitch /\ UNCHANGED <<smVars, aaVars, psVars, skVars, rcVars, saVars>>

SpecGrowthController == Init /\ [][NextGrowthController]_vars

NextRoseCurve ==
    RCCalculateCurve /\ UNCHANGED <<smVars, aaVars, psVars, skVars, gcVars, saVars>>

SpecRoseCurve == Init /\ [][NextRoseCurve]_vars

NextSampleAnalysis ==
    \/ SAGetVolume /\ UNCHANGED <<smVars, aaVars, psVars, skVars, gcVars, rcVars>>
    \/ SAAutoCorrelate /\ UNCHANGED <<smVars, aaVars, psVars, skVars, gcVars, rcVars>>

SpecSampleAnalysis == Init /\ [][NextSampleAnalysis]_vars

(***************************************************************************)
(* Claims about StateMachine                                               *)
(***************************************************************************)

\* Position of a state in the growth order Seed < Sprout < Stem < Bloom < Scatter
Rank(s) ==
    CASE s = "SEED" -> 0
      [] s = "SPROUT" -> 1
      [] s = "STEM" -> 2
      [] s = "BLOOM" -> 3
      [] s = "SCATTER" -> 4

\* C1: update(volume, growthProgress) follows exactly the transition table,
\* boundaries inclusive: Seed -> Sprout iff volume >= 30, Sprout -> Stem iff
\* growthProgress >= 100, Stem -> Bloom iff growthProgress >= 300,
\* Bloom -> Scatter iff volume >= 70; in every other case the state is unchanged.
C1_TransitionTable ==
    smOp = "update" =>
        /\ (smPrev = "SEED" /\ smVolume >= 30) <=>
               (smPrev = "SEED" /\ currentState = "SPROUT")
        /\ (smPrev = "SPROUT" /\ smProgress >= 100) <=>
               (smPrev = "SPROUT" /\ currentState = "STEM")
        /\ (smPrev = "STEM" /\ smProgress >= 300) <=>
               (smPrev = "STEM" /\ currentState = "BLOOM")
        /\ (smPrev = "BLOOM" /\ smVolume >= 70) <=>
               (smPrev = "BLOOM" /\ currentState = "SCATTER")
        /\ currentState # smPrev =>
               \/ smPrev = "SEED" /\ smVolume >= 30
               \/ smPrev = "SPROUT" /\ smProgress >= 100
               \/ smPrev = "STEM" /\ smProgress >= 300
               \/ smPrev = "BLOOM" /\ smVolume >= 70

\* An update exactly on a boundary has moved the machine (Stem to Bloom at 300)
C1_Witness ==
    /\ smOp = "update"
    /\ smPrev = "STEM"
    /\ smProgress = 300
    /\ smVolume = 0
    /\ currentState = "BLOOM"

\* C2: one update call advances the state by at most one step of the growth
\* order and never moves it backward, so a machine in a state of rank n has
\* seen at least n update calls since it was constructed or reset.
C2_AtMostOneStep ==
    /\ smOp = "update" => Rank(currentState) - Rank(smPrev) \in {0, 1}
    /\ Rank(currentState) <= smUpdates

\* update(100, 1000) from Seed has run: the inputs satisfy every later condition
C2_Witness ==
    /\ smOp = "update"
    /\ smPrev = "SEED"
    /\ smVolume = 100
    /\ smProgress = 1000
    /\ currentState = "SPROUT"

\* C3: Scatter is absorbing under update; only reset() leaves Scatter.
C3_ScatterAbsorbing ==
    [][currentState = "SCATTER" =>
          /\ smOp' = "update" => currentState' = "SCATTER"
          /\ currentState' # "SCATTER" => smOp' = "reset"]_vars

\* An update with a volume below every threshold has run in Scatter
C3_Witness ==
    /\ smOp = "update"
    /\ smPrev = "SCATTER"
    /\ smVolume = 0
    /\ currentState = "SCATTER"

\* C4: a new StateMachine is in Seed, and reset() in any state leaves it in Seed.
C4_ResetToSeed ==
    /\ smOp = "new" => currentState = "SEED"
    /\ smOp = "reset" => currentState = "SEED"

\* reset() has run in the middle of a cycle
C4_Witness ==
    /\ smOp = "reset"
    /\ smPrev = "STEM"
    /\ currentState = "SEED"

(***************************************************************************)
(* Claims about AudioAnalyzer                                              *)
(***************************************************************************)

\* The capture resources that exist and are not released
LiveTracks == {c \in Calls : web.track[c] # "none"}
OpenContexts == {c \in Calls : web.ctx[c] # "none"}
ConnectedNodes == {c \in Calls : web.mic[c] # "none" \/ web.analyser[c] # "none"}

AtMostOneLiveSet ==
    /\ Cardinality(LiveTracks) <= 1
    /\ Cardinality(OpenContexts) <= 1
    /\ Cardinality(ConnectedNodes) <= 1

\* C5: dispose() cancels at once: after dispose() has returned the analyzer
\* stays inactive until initialize() is called again, also when an earlier
\* initialize() call is still suspended while dispose() runs.
C5_DisposeCancels == disposedSinceInit => ~an.active

\* C6: initialize() on an active analyzer releases the prior capture
\* resources (tracks stopped, nodes disconnected, context closed) before it
\* acquires any new one, and once such a call settles at most one set of
\* capture resources is live.
C6_RestartReleasesFirst ==
    [][\A i \in Calls :
          /\ (pc[i] = "idle" /\ pc'[i] = "waitTeardown") =>
                /\ an.mediaStream # 0 => web'.track[an.mediaStream] = "none"
                /\ an.microphone # 0 => web'.mic[an.microphone] = "none"
                /\ an.analyserNode # 0 => web'.analyser[an.analyserNode] = "none"
                /\ an.audioContext # 0 => web'.ctx[an.audioContext] = "none"
                /\ web'.ctx[i] = "none" /\ web'.track[i] = "none"
          /\ (wasActive[i] /\ pc[i] # "settled" /\ pc'[i] = "settled") =>
                AtMostOneLiveSet']_vars

\* C7: a failing initialize() throws one of three kinds of error (permission
\* denied, device not found, unsupported platform), and right after any
\* failed initialize() the analyzer is inactive.
C7_FailedInitialize ==
    aaOp = "initFailed" =>
        /\ thrown \in {"PermissionDenied", "DeviceNotFound", "UnsupportedPlatform"}
        /\ ~an.active

\* C8: dispose() never fails and leaves the analyzer inactive, whenever it
\* is called; a second dispose() changes nothing.
C8_DisposeIdempotent ==
    /\ aaOp = "dispose" =>
          /\ thrown = "none"
          /\ ~an.active
          /\ DisposeOf(an, web) = [an |-> an, web |-> web]
    /\ LET d == DisposeOf(an, web)
       IN  ~d.an.active /\ DisposeOf(d.an, d.web) = d

\* dispose() has run after an initialize() call settled, while another
\* call is still suspended
C8_Witness ==
    /\ aaOp = "dispose"
    /\ \E i, j \in Calls : pc[i] = "settled" /\ pc[j] = "waitGUM"

\* C9: whenever the analyzer is not active, volume() and pitch() return 0
\* and do not throw.
C9_InactivePollsZero ==
    (aaOp \in {"getVolume", "getPitch"} /\ ~an.active) => (pollResult = 0 /\ thrown = "none")

\* A poll has run on an analyzer that still holds its nodes and buffer on a
\* running context but is inactive (the capture track ended)
C9_Witness ==
    /\ aaOp \in {"getVolume", "getPitch"}
    /\ ~an.active
    /\ an.analyserNode # 0
    /\ an.dataArray # 0
    /\ an.audioContext # 0
    /\ web.ctx[an.audioContext] = "running"
    /\ pollResult = 0

\* C10: after any generateParticles call, also one made in the converge
\* phase, the phase is scatter and the particles are exactly the newly
\* spawned ones (one per flower point, 11 along the stem, 5 per leaf, all
\* with full alpha and life and born at the call's currentTime): none of the
\* earlier particles is left.
C10_GenerateStartsFresh ==
    psOp = "generate" =>
        /\ phase = "scatter"
        /\ Len(particles) = psIn.flowerPoints + 11 + 5 * psIn.leaves
        /\ \A j \in 1..Len(particles) :
              /\ particles[j].alpha = 1000
              /\ particles[j].life = 60000
              /\ particles[j].birthTime = psIn.currentTime

\* generateParticles called in the converge phase on faded particles born at
\* another time, more of them than the call spawns
C10_Witness ==
    /\ psOp = "generate"
    /\ psPrev.phase = "converge"
    /\ psPrev.count > Len(particles)

\* C11: after generateParticles, repeated update calls with deltaTime > 0
\* eventually switch the phase from scatter to converge, whatever the volume
\* and the pitch of the call (unless reset() empties the system first).
C11_ScatterEndsInConverge ==
    (psOp = "generate") ~> (phase = "converge" \/ psOp = "reset")

\* An update has switched the phase from scatter to converge
C11_Witness ==
    /\ psOp = "update"
    /\ psPrev.phase = "scatter"
    /\ phase = "converge"
    /\ psIn.deltaTime > 0
    /\ Len(particles) > 0

\* C12: allParticlesArrived() is true exactly when the phase is converge and
\* every particle is within the arrival threshold (5 px) of its target; it
\* is false in every state of the scatter phase
C12_ArrivedIffConvergedAndNear ==
    /\ AllParticlesArrived(particles, phase) <=>
           /\ phase = "converge"
           /\ \A j \in 1..Len(particles) :
                  Distance(particles[j].targetX - particles[j].x,
                           particles[j].targetY - particles[j].y) <= arrivalThreshold
    /\ phase = "scatter" => ~AllParticlesArrived(particles, phase)

\* C12: the particles have been updated in the converge phase until all of
\* them arrived
C12_Witness ==
    /\ psOp = "update"
    /\ psPrev.phase = "converge"
    /\ Len(particles) > 0
    /\ AllParticlesArrived(particles, phase)

\* The coordinate after lies between the coordinate before and the target
Between(before, after, target) ==
    IF before <= target THEN before <= after /\ after <= target
    ELSE target <= after /\ after <= before

\* C13: an update in the converge phase, with any deltaTime >= 0, leaves no
\* particle farther from its target than it was, and moves no particle past
\* its target
C13_ConvergeNeverRecedes ==
    [][(psOp' = "update" /\ phase = "converge") =>
          /\ Len(particles') = Len(particles)
          /\ \A j \in 1..Len(particles) :
                /\ Distance(particles'[j].targetX - particles'[j].x,
                            particles'[j].targetY - particles'[j].y)
                      <= Distance(particles[j].targetX - particles[j].x,
                                  particles[j].targetY - particles[j].y)
                /\ Between(particles[j].x, particles'[j].x, particles[j].targetX)
                /\ Between(particles[j].y, particles'[j].y, particles[j].targetY)
                /\ particles'[j].targetX = particles[j].targetX
                /\ particles'[j].targetY = particles[j].targetY]_vars

\* C13: an update with deltaTime > 0 in the converge phase has moved a
\* particle (its velocity records the move)
C13_Witness ==
    /\ psOp = "update"
    /\ psPrev.phase = "converge"
    /\ psIn.deltaTime > 0
    /\ \E j \in 1..Len(particles) : particles[j].vx # 0 \/ particles[j].vy # 0

\* C14: in every state reachable through generate, update (deltaTime >= 0)
\* and reset, every particle has 0 <= alpha <= 1 and 0 <= life <= 1
C14_AlphaAndLifeInRange ==
    \A j \in 1..Len(particles) :
        /\ 0 <= particles[j].alpha /\ particles[j].alpha <= AlphaOne
        /\ 0 <= particles[j].life /\ particles[j].life <= LifeOne

\* C14: an update of the scatter phase has decayed the alpha and the life of
\* a particle down to the floor
C14_Witness ==
    /\ psOp = "update"
    /\ psPrev.phase = "scatter"
    /\ psIn.deltaTime > 0
    /\ \E j \in 1..Len(particles) : particles[j].alpha = 0 /\ particles[j].life = 0

\* What generateParticles gives every particle, whatever its part: alpha 1,
\* life 1, maxLife between 3 and 5 seconds, birthTime = now and the seed
\* position as target
StartsFresh(p) ==
    /\ p.alpha = AlphaOne
    /\ p.life = LifeOne
    /\ 3000 <= p.maxLife /\ p.maxLife <= 5000
    /\ p.birthTime = psIn.currentTime
    /\ p.targetX = seedPosition.x /\ p.targetY = seedPosition.y

C16_LowPitchBiasesDownward ==
    psOp = "generate" =>
        /\ \A j \in 1..Len(particles) :
              LET fall == ScatterStep(particles[j], 1000).vy - particles[j].vy
              IN  /\ psIn.pitch < 500 => VerticalBias(psIn.pitch) * fall > 0
                  /\ psIn.pitch > 500 => VerticalBias(psIn.pitch) * fall < 0
        /\ VerticalBias(psIn.pitch) = VerticalBias(Max(200, Min(800, psIn.pitch)))

\* C17: within one animation tick the signal is sampled from the analyzer
\* once, and that one sample is what every consumer of the tick uses: no
\* p.draw reads the volume or the pitch of the analyzer two or more times
C17_SignalSampledOncePerTick ==
    (drawPc = "idle" /\ ticks > 0) =>
        /\ Len(volumeReads) <= 1
        /\ Len(pitchReads) <= 1
        /\ \A i \in 1..Len(volumeReads), j \in 1..Len(pitchReads) :
              volumeReads[i][2] = pitchReads[j][2]

\* C18: while the analyzer is active, whatever the sample buffer holds and
\* however many polls came before, every volume() result lies in [0,100]
\* and every pitch() result is >= 0
C18_PollResultsInRange ==
    an.active =>
        /\ aaOp = "getVolume" => (0 <= pollResult /\ pollResult <= 1000)
        /\ aaOp = "getPitch" => pollResult >= 0

\* C18: a poll of the active analyzer has returned a volume strictly between
\* 0 and 100
C18_Witness ==
    /\ an.active
    /\ aaOp = "getVolume"
    /\ 0 < pollResult /\ pollResult < 1000

\* The volume lies in [0,100]
InVolumeRange(volume) == 0 <= volume /\ volume <= 100

\* C19: for every volume in [0,100] the growthSpeed that update returns lies
\* in [1,3], is 1 for the volume 0, 2 for 50 and 3 for 100, is not smaller
\* than that of an update with a smaller volume, and is the same for the
\* same volume whatever the pitch and the deltaTime
C19_GrowthSpeedInRangeAndMonotonic ==
    [][(gcOp' = "update" /\ InVolumeRange(gcIn'.volume)) =>
          /\ SpeedOne <= gcOut'.growthSpeed /\ gcOut'.growthSpeed <= 3 * SpeedOne
          /\ gcIn'.volume = 0 => gcOut'.growthSpeed = SpeedOne
          /\ gcIn'.volume = 50 => gcOut'.growthSpeed = 2 * SpeedOne
          /\ gcIn'.volume = 100 => gcOut'.growthSpeed = 3 * SpeedOne
          /\ (gcOp = "update" /\ InVolumeRange(gcIn.volume)) =>
                /\ gcIn.volume <= gcIn'.volume => gcOut.growthSpeed <= gcOut'.growthSpeed
                /\ gcIn.volume = gcIn'.volume => gcOut.growthSpeed = gcOut'.growthSpeed]_vars

\* C19: update has been called with the volume 50 and returned the speed 2
C19_Witness ==
    /\ gcOp = "update"
    /\ gcIn.volume = 50
    /\ gcIn.pitch = 300 /\ gcIn.deltaTime = 16
    /\ gcOut.growthSpeed = 2 * SpeedOne

\* C20: a volume out of range is clamped: for every volume, those below 0 and
\* above 100 included, the growthSpeed that update returns lies in [1,3] and
\* is not smaller than that of an update with a smaller volume
C20_OutOfRangeVolumeClamped ==
    [][(gcOp' = "update") =>
          /\ SpeedOne <= gcOut'.growthSpeed /\ gcOut'.growthSpeed <= 3 * SpeedOne
          /\ (gcOp = "update" /\ gcIn.volume <= gcIn'.volume) =>
                gcOut.growthSpeed <= gcOut'.growthSpeed]_vars

\* C21: for every pitch, negative and very large ones included, update
\* returns colorHue in [120,180], colorSaturation in [50,80] and
\* colorLightness in [30,70]; hue and saturation are the lower bound for a
\* pitch <= 200, the upper bound for a pitch >= 400 and linear in between;
\* none of the three depends on the volume
C21_ColorsClampedAndOfPitchOnly ==
    [][(gcOp' = "update") =>
          LET pitch == gcIn'.pitch
              ramp == IF pitch <= 200 THEN 0
                      ELSE IF pitch >= 400 THEN 200 ELSE pitch - 200
          IN  /\ 1200 <= gcOut'.colorHue /\ gcOut'.colorHue <= 1800
              /\ 5000 <= gcOut'.colorSaturation /\ gcOut'.colorSaturation <= 8000
              /\ 300 <= gcOut'.colorLightness /\ gcOut'.colorLightness <= 700
              /\ gcOut'.colorHue = 1200 + 3 * ramp
              /\ gcOut'.colorSaturation = 5000 + 15 * ramp
              /\ (gcOp = "update" /\ gcIn.pitch = pitch) =>
                    /\ gcOut'.colorHue = gcOut.colorHue
                    /\ gcOut'.colorSaturation = gcOut.colorSaturation
                    /\ gcOut'.colorLightness = gcOut.colorLightness]_vars

\* C21: update has been called with a negative pitch and returned the lower
\* bounds
C21_Witness ==
    /\ gcOp = "update"
    /\ gcIn.pitch < 0
    /\ gcIn.volume = 100
    /\ gcOut.colorHue = 1200 /\ gcOut.colorSaturation = 5000
    /\ gcOut.colorLightness = 300

\* C22: calculateCurve(a, k, segments) returns exactly segments + 1 points
\* for every segments >= 0, and every point has r >= 0 and theta >= 0
C22_CurvePointsCountedAndNonNegative ==
    rcOp = "calculateCurve" =>
        /\ Len(rcOut) = rcIn.segments + 1
        /\ \A j \in 1..Len(rcOut) :
              /\ ~rcOut[j].nan
              /\ rcOut[j].r >= 0
              /\ rcOut[j].theta >= 0

C24_QuietMeanSkipsSearch ==
    (/\ saOp = "autoCorrelate"
     /\ Len(saIn.buffer) > 0
     /\ SumAbs(saIn.buffer, 1) * 100 < 128 * Len(saIn.buffer))
        => (saOut.value = 0 /\ ~saOut.searched)

\* C25: an update with deltaTime > 0 in the scatter phase makes vy of every
\* particle strictly greater and alpha of every particle strictly smaller
C25_ScatterFallsAndFades ==
    [][(phase = "scatter" /\ psOp' = "update" /\ psIn'.deltaTime > 0) =>
          /\ Len(particles') = Len(particles)
          /\ \A j \in 1..Len(particles) :
                /\ particles'[j].vy > particles[j].vy
                /\ particles'[j].alpha < particles[j].alpha]_vars

\* a second update with deltaTime > 0 in the scatter phase has acted on
\* particles: alpha has fallen below the 0.4 that the first one left
C25_Witness ==
    /\ psOp = "update"
    /\ psPrev.phase = "scatter"
    /\ psIn.deltaTime > 0
    /\ Len(particles) > 0
    /\ \A j \in 1..Len(particles) : particles[j].alpha < 400

\* the distance of a particle to its target, and the speed recorded in it
Remaining(p) == Distance(p.targetX - p.x, p.targetY - p.y)
SpeedOf(p) == Distance(p.vx, p.vy)

C27_InactiveLeavesNothingOpen ==
    (/\ \A i \in Calls : pc[i] \in {"idle", "settled"}
     /\ ~an.active)
        => \A c \in Calls : web.track[c] = "none" /\ web.ctx[c] = "none"

\* C28: once the phase is converge, updates with deltaTime > 0 that keep
\* coming lead to allParticlesArrived() (unless generateParticles or reset
\* starts a scatter phase first), and an update never makes a true
\* allParticlesArrived() false again
C28_ConvergeArrivesAndStays ==
    /\ (phase = "converge") ~> (AllParticlesArrived(particles, phase) \/ phase = "scatter")
    /\ [][(AllParticlesArrived(particles, phase) /\ psOp' = "update")
              => AllParticlesArrived(particles', phase')]_vars

\* an update with deltaTime > 0 has run on particles that had all arrived:
\* they are at rest and still arrived
C28_Witness ==
    /\ psOp = "update"
    /\ psPrev.phase = "converge"
    /\ psIn.deltaTime > 0
    /\ Len(particles) > 0
    /\ AllParticlesArrived(particles, phase)
    /\ \A j \in 1..Len(particles) : particles[j].vx = 0 /\ particles[j].vy = 0

\* C29: an update in the converge phase leaves the phase converge; the
\* phase changes from converge to scatter only in generateParticles or reset
C29_PhaseOneWayUnderUpdate ==
    [][/\ (phase = "converge" /\ psOp' = "update") => phase' = "converge"
       /\ (phase = "converge" /\ phase' = "scatter")
              => psOp' \in {"generate", "reset"}]_vars

\* an update with deltaTime > 0 has run in the converge phase on particles
\* whose alpha has recovered to the threshold or above
C29_Witness ==
    /\ psOp = "update"
    /\ psPrev.phase = "converge"
    /\ phase = "converge"
    /\ psIn.deltaTime > 0
    /\ Len(particles) > 0
    /\ ~BelowAlphaThreshold(particles)

\* C30: in the converge phase there are particles, and an update of a
\* simulation without particles does not switch to converge
C30_ConvergeHasParticles ==
    /\ phase = "converge" => Len(particles) > 0
    /\ (psOp = "update" /\ particles = <<>>) => phase = "scatter"

\* update with deltaTime > 0 has run on a simulation without particles
C30_Witness ==
    /\ psOp = "update"
    /\ psIn.deltaTime > 0
    /\ particles = <<>>
    /\ phase = "scatter"

====
